---- MODULE Spec2Model ----
(***************************************************************************)
(* Model of the cash-flow report pipeline of src/crew.py and src/main.py:  *)
(*   process_excel               (main.py)  upload, validation, balance    *)
(*   generate_cash_flow_analysis (crew.py)  the report builder             *)
(*   run_ai_analysis             (main.py)  builder + crew + files + mail, *)
(*                                          step by step: other handlers   *)
(*                                          run while a call is waiting    *)
(*                                                                         *)
(* Conventions.                                                            *)
(*  - A table (pandas DataFrame) is [kind, cols, rows]: cols is the set of *)
(*    column names, rows the sequence of rows.  A row is a record with the *)
(*    fields Date, Party, In, Out, Status, RB for the columns 'Date',      *)
(*    'Party Name', 'Cash Inflow', 'Cash Outflow', 'Payment Status',       *)
(*    'Running Balance'.  A field of an absent column is never read.       *)
(*  - Time is counted in ticks, DayTicks ticks to a day.  Timedelta.days   *)
(*    and strftime('%Y-%m-%d') floor to whole days (\div DayTicks).        *)
(*    The clock moves while a call runs: every pd.Timestamp.now() is a     *)
(*    reading of its own, not earlier than the one before.                 *)
(*  - Amounts are integers.  Quotients are kept exact as num/den pairs;    *)
(*    the formatted value (:.1f, :.2f) is what Python prints for the       *)
(*    float the division gives: the double nearest to the quotient,        *)
(*    rounded half-even (on its exact binary value) to tenths or           *)
(*    hundredths.                                                          *)
(*  - The order of equal keys after sort_values (numpy quicksort) is not   *)
(*    specified: the model draws it from every order the sort may give.    *)
(***************************************************************************)
EXTENDS Integers, Sequences, FiniteSets, TLC

VARIABLES
    file,                   \* the table a caller holds: the uploaded workbook
    df_state,               \* gr.State of main.py: None or the processed table
    upload_output,          \* what process_excel answered: "initial", "ok", "missing", "error"
    cash_flow_report_data,  \* Projectneon.cash_flow_report_data (class variable)
    ret,                    \* what the last generate_cash_flow_analysis call returned
    prev,                   \* history: the report stored before the last call
    now,                    \* wall clock, in ticks
    gen_at,                 \* history: the clock readings of each of the last two generate calls
    arg,                    \* history: the table the last generate call was given
    phase,                  \* position of the caller: "edit", "uploaded", "done", "permuted"
    run,                    \* the run_ai_analysis invocations in progress, by run id
    files,                  \* report files that exist beside main.py
    emails,                 \* runs whose reports were mailed, in order
    api_key,                \* whether NVIDIA_NIM_API_KEY is set
    cwd,                    \* working directory of the process: "report_dir" (where
                            \* main.py lies) or "elsewhere"
    memoized                \* whether @task of the installed crewai.project (crew.py 2)
                            \* keeps the Task a builder returned and returns it again

vars == <<file, df_state, upload_output, cash_flow_report_data, ret, prev, now,
          gen_at, arg, phase, run, files, emails, api_key, cwd, memoized>>

-----------------------------------------------------------------------------
(* Bounds of the model *)

MaxRows == 2
MaxDay == 3
MaxAmt == 1
DayTicks == 2
MaxNow == 13
MaxDrift == 1

(* Program constants *)

TopN == 10
PctScale == 1000
CentScale == 100
TenthScale == 10

-----------------------------------------------------------------------------
(* Values *)

None == [kind |-> "None"]

RequiredCols == {"Date", "Party Name", "Cash Inflow", "Cash Outflow", "Payment Status"}
AllCols == RequiredCols \cup {"Running Balance"}

Statuses == {"Paid", "Pending", "Overdue", "Other"}
Parties == {"Acme", "Beta"}
Days == {1, MaxDay}
Dates == {d * DayTicks : d \in Days}

Table(cols, rows) == [kind |-> "table", cols |-> cols, rows |-> rows]

-----------------------------------------------------------------------------
(* Arithmetic helpers *)

Max2(a, b) == IF a >= b THEN a ELSE b

Abs(x) == IF x < 0 THEN -x ELSE x

\* n/d rounded to the nearest integer, for a quotient that is not half-way
\* between two integers (d > 0).  At a tie the double decides, see below.
Nearest(n, d) ==
    LET q == n \div d
        r == n - q * d
    IN  CASE 2 * r < d -> q
          [] 2 * r > d -> q + 1

\* The exact quotient n/d lies half-way between two integers (d > 0).
IsTie(n, d) == (2 * n) % d = 0 /\ n % d # 0

-----------------------------------------------------------------------------
(* Python floats (IEEE 754 binary64, round to nearest even) for the values   *)
(* the report formats.  A natural number is a sequence of limbs of LimbBits  *)
(* bits, lowest limb first, with no zero limb at the top.  A double is       *)
(* [neg, m, e] with m of 53 bits, standing for m * 2^e (negated when neg),   *)
(* or m = <<>> for zero.  Values stay far inside the normal range.           *)
(* The double of a quotient of integers of the sizes used here differs from  *)
(* the quotient by a relative error below 2^-51, far less than the distance  *)
(* of a quotient that is not a tie from the nearest tie (at least            *)
(* 1/(2*divisor) units of the last printed digit); so off the ties the       *)
(* printed value is Nearest of the quotient, and at a tie it is what the     *)
(* double computed below rounds to.                                          *)

MantBits == 53

LimbBits == 15

Base == 2 ^ LimbBits

Zeros(n) == [i \in 1 .. n |-> 0]

Limb(b, i) == IF i \in DOMAIN b THEN b[i] ELSE 0

Trim(b) ==
    LET N == {i \in DOMAIN b : b[i] # 0}
    IN  IF N = {} THEN <<>> ELSE SubSeq(b, 1, CHOOSE i \in N : \A j \in N : j <= i)

\* The limbs of an integer 0 <= n < 2^31, and back
Limbs(n) == Trim(<<n % Base, (n \div Base) % Base, n \div (Base * Base)>>)

ToInt(b) == Limb(b, 1) + Base * Limb(b, 2) + Base * Base * Limb(b, 3)

BitLen(b) ==
    IF b = <<>> THEN 0
    ELSE LimbBits * (Len(b) - 1)
         + (CHOOSE k \in 1 .. LimbBits : 2 ^ (k - 1) <= b[Len(b)] /\ b[Len(b)] < 2 ^ k)

\* Bit i of b, bit 0 the lowest
BitAt(b, i) == (Limb(b, (i \div LimbBits) + 1) \div (2 ^ (i % LimbBits))) % 2

\* b * 2^s
ShiftLeft(b, s) ==
    LET w == s \div LimbBits
        t == s % LimbBits
    IN  Trim(Zeros(w) \o [i \in 1 .. Len(b) + 1 |->
                 ((Limb(b, i) * (2 ^ t)) % Base) + (Limb(b, i - 1) \div (2 ^ (LimbBits - t)))])

\* b / 2^s, rounded down
ShiftRight(b, s) ==
    LET w == s \div LimbBits
        t == s % LimbBits
    IN  Trim([i \in 1 .. Len(b) - w |->
                 (Limb(b, i + w) \div (2 ^ t)) + (Limb(b, i + w + 1) % (2 ^ t)) * (2 ^ (LimbBits - t))])

\* b + 1
RECURSIVE Incr(_)
Incr(b) ==
    IF b = <<>> THEN <<1>>
    ELSE IF b[1] < Base - 1 THEN <<b[1] + 1>> \o Tail(b) ELSE <<0>> \o Incr(Tail(b))

\* b * k + carry, for 0 < k < Base
RECURSIVE MulSmall(_, _, _)
MulSmall(b, k, carry) ==
    IF b = <<>> THEN Limbs(carry)
    ELSE LET v == b[1] * k + carry IN <<v % Base>> \o MulSmall(Tail(b), k, v \div Base)

\* a >= b
GE(a, b) ==
    IF Len(a) # Len(b) THEN Len(a) > Len(b)
    ELSE LET D == {i \in DOMAIN a : a[i] # b[i]}
         IN  D = {} \/ LET top == CHOOSE i \in D : \A j \in D : j <= i
                       IN  a[top] > b[top]

\* a - b - borrow, for a >= b + borrow, limb by limb
RECURSIVE SubLimbs(_, _, _)
SubLimbs(a, b, borrow) ==
    IF a = <<>> THEN <<>>
    ELSE LET v == a[1] - Limb(b, 1) - borrow
         IN  <<v % Base>> \o SubLimbs(Tail(a), IF b = <<>> THEN b ELSE Tail(b),
                                      IF v < 0 THEN 1 ELSE 0)

\* 2 * b + bit
Append1(b, bit) ==
    LET s == ShiftLeft(b, 1)
    IN  IF bit = 0 THEN s ELSE IF s = <<>> THEN <<1>> ELSE [s EXCEPT ![1] = @ + 1]

\* b / 2^s rounded to the nearest natural, ties to even; sticky tells that a
\* non-zero part below the lowest bit of b was dropped before.  For s <= 0 the
\* result is b * 2^-s.
ShiftRound(b, s, sticky) ==
    IF s <= 0 THEN ShiftLeft(b, -s)
    ELSE LET kept == ShiftRight(b, s)
             rest == sticky \/ \E i \in 0 .. s - 2 : BitAt(b, i) = 1
             up == BitAt(b, s - 1) = 1 /\ (rest \/ BitAt(kept, 0) = 1)
         IN  IF up THEN Incr(kept) ELSE kept

FloatZero == [neg |-> FALSE, m |-> <<>>, e |-> 0]

\* The double nearest to b * 2^e (plus a little, when sticky), negated when neg.
RoundToDouble(neg, b, e, sticky) ==
    IF b = <<>> THEN FloatZero
    ELSE LET s == BitLen(b) - MantBits
             r == ShiftRound(b, s, sticky)
         IN  IF BitLen(r) > MantBits
             THEN [neg |-> neg, m |-> ShiftRight(r, 1), e |-> e + s + 1]
             ELSE [neg |-> neg, m |-> r, e |-> e + s]

\* Long division of a by d # 0, one bit of the quotient per step: st holds the
\* quotient and the remainder so far; the bits hi down to lo of a are brought
\* down, the range split in halves.  Once the remainder is zero and no bit of
\* a is left below, the rest of the quotient is zero.
RECURSIVE DivSteps(_, _, _, _, _)
DivSteps(a, d, st, hi, lo) ==
    IF hi < lo THEN st
    ELSE IF hi = lo
    THEN LET r2 == Append1(st.r, BitAt(a, hi))
         IN  IF GE(r2, d) THEN [q |-> Append1(st.q, 1), r |-> Trim(SubLimbs(r2, d, 0))]
             ELSE [q |-> Append1(st.q, 0), r |-> r2]
    ELSE LET mid == (hi + lo) \div 2
             upper == DivSteps(a, d, st, hi, mid + 1)
         IN  IF upper.r = <<>> /\ \A i \in lo .. mid : BitAt(a, i) = 0
             THEN [q |-> ShiftLeft(upper.q, mid - lo + 1), r |-> <<>>]
             ELSE DivSteps(a, d, upper, mid, lo)

DivMod(a, d) == DivSteps(a, d, [q |-> <<>>, r |-> <<>>], BitLen(a) - 1, 0)

\* a / b for integers a and b # 0 (Python true division)
FloatDiv(a, b) ==
    IF a = 0 THEN FloatZero
    ELSE LET k == MantBits + 2 + BitLen(Limbs(Abs(b)))
             d == DivMod(ShiftLeft(Limbs(Abs(a)), k), Limbs(Abs(b)))
         IN  RoundToDouble((a < 0) # (b < 0), d.q, -k, d.r # <<>>)

\* x * k for a double x and an integer 0 < k < Base
FloatMulSmall(x, k) ==
    IF x.m = <<>> THEN x ELSE RoundToDouble(x.neg, MulSmall(x.m, k, 0), x.e, FALSE)

\* a / y for an integer a and a double y # 0
IntDivFloat(a, y) ==
    IF a = 0 THEN FloatZero
    ELSE LET k == 2 * MantBits + 4
             d == DivMod(ShiftLeft(Limbs(Abs(a)), k), y.m)
         IN  RoundToDouble((a < 0) # y.neg, d.q, -k - y.e, d.r # <<>>)

\* format(x, '.1f') or '.2f': x * scale rounded to the nearest integer, ties
\* (of the double's exact value) to even, as units of the last printed digit.
FormatFixed(x, scale) ==
    IF x.m = <<>> THEN 0
    ELSE LET v == ToInt(ShiftRound(MulSmall(x.m, scale, 0), -x.e, FALSE))
         IN  IF x.neg THEN -v ELSE v

\* f"{a / b:.1f}" or f"{a / b:.2f}" for integers a and b > 0, in units of the
\* last printed digit
FormatQuotient(a, b, scale) ==
    IF IsTie(a * scale, b) THEN FormatFixed(FloatDiv(a, b), scale)
    ELSE Nearest(a * scale, b)

-----------------------------------------------------------------------------
(* Table helpers *)

\* The sum of a column, the rows split in halves
RECURSIVE SumOf(_, _)
SumOf(rows, col) ==
    IF Len(rows) = 0 THEN 0
    ELSE IF Len(rows) = 1 THEN (IF col = "In" THEN rows[1].In ELSE rows[1].Out)
    ELSE LET h == Len(rows) \div 2
         IN  SumOf(SubSeq(rows, 1, h), col) + SumOf(SubSeq(rows, h + 1, Len(rows)), col)

\* Mutant: a status test that also takes 'Pending' rows for 'Paid'.
WithStatus_Loose(rows, s) ==
    SelectSeq(rows, LAMBDA r : r.Status = s \/ (s = "Paid" /\ r.Status = "Pending"))

WithStatus(rows, s) == SelectSeq(rows, LAMBDA r : r.Status = s)

RECURSIVE SeqMax(_)
SeqMax(s) == IF Len(s) = 1 THEN s[1] ELSE Max2(s[1], SeqMax(Tail(s)))

RECURSIVE SeqMin(_)
SeqMin(s) == IF Len(s) = 1 THEN s[1]
             ELSE LET m == SeqMin(Tail(s)) IN IF s[1] <= m THEN s[1] ELSE m

-----------------------------------------------------------------------------
(* process_excel, main.py 26-61 *)

\* df.sort_values('Date'): every ascending order of the rows whose indices are in S.
RECURSIVE SortValuesDate(_, _)
SortValuesDate(rows, S) ==
    IF S = {} THEN {<<>>}
    ELSE UNION {{<<rows[i]>> \o t : t \in SortValuesDate(rows, S \ {i})} :
                i \in {j \in S : \A k \in S : rows[j].Date <= rows[k].Date}}

\* Mutant: the outflow is subtracted with its sign, without .abs().
RECURSIVE CumSum_Signed(_, _)
CumSum_Signed(rows, acc) ==
    IF rows = <<>> THEN <<>>
    ELSE LET r == Head(rows)
             b == acc + (r.In - r.Out)
         IN  <<[r EXCEPT !.RB = b]>> \o CumSum_Signed(Tail(rows), b)

\* Mutant: the per-row net amount is stored, without .cumsum().
RECURSIVE CumSum_Restart(_, _)
CumSum_Restart(rows, acc) ==
    IF rows = <<>> THEN <<>>
    ELSE LET r == Head(rows)
         IN  <<[r EXCEPT !.RB = r.In - Abs(r.Out)]>> \o CumSum_Restart(Tail(rows), acc)

\* (df['Cash Inflow'].fillna(0) - df['Cash Outflow'].fillna(0).abs()).cumsum()
RECURSIVE CumSum(_, _)
CumSum(rows, acc) ==
    IF rows = <<>> THEN <<>>
    ELSE LET r == Head(rows)
             b == acc + (r.In - Abs(r.Out))
         IN  <<[r EXCEPT !.RB = b]>> \o CumSum(Tail(rows), b)

MissingCols(f) == RequiredCols \ f.cols

\* The table after "Standardize data types and calculate running balance";
\* order is the outcome of sort_values, used only when the column is computed.
Standardize(f, order) ==
    IF "Running Balance" \notin f.cols
    THEN Table(f.cols \cup {"Running Balance"}, CumSum(order, 0))
    ELSE f

\* Mutant: the required columns are not checked.
process_excel_NoValidation(f, order) ==
    IF f = None THEN [msg |-> "no_file", df |-> None]
    ELSE LET df == Standardize(f, order)
         IN  IF Len(df.rows) = 0 THEN [msg |-> "error", df |-> None]
             ELSE [msg |-> "ok", df |-> df]

\* The (message, table) pair process_excel returns.  The summary reads
\* df['Running Balance'].iloc[-1], which raises on a table without rows; the
\* except clause turns that into an error message and no table.
process_excel(f, order) ==
    IF f = None THEN [msg |-> "no_file", df |-> None]
    ELSE IF MissingCols(f) # {} THEN [msg |-> "missing", df |-> None]
    ELSE LET df == Standardize(f, order)
         IN  IF Len(df.rows) = 0 THEN [msg |-> "error", df |-> None]
             ELSE [msg |-> "ok", df |-> df]

-----------------------------------------------------------------------------
(* generate_cash_flow_analysis, crew.py 39-185 *)

\* df[df['Cash Inflow'] > 0] if 'Cash Inflow' in df.columns else pd.DataFrame()
Inflows(df) ==
    IF "Cash Inflow" \in df.cols THEN SelectSeq(df.rows, LAMBDA r : r.In > 0) ELSE <<>>

Outflows(df) ==
    IF "Cash Outflow" \in df.cols THEN SelectSeq(df.rows, LAMBDA r : r.Out > 0) ELSE <<>>

\* Mutant: the overdue filter tests the status alone.
OverdueRows_AnyFlow(df) == SelectSeq(df.rows, LAMBDA r : r.Status = "Overdue")

\* df[(df['Cash Inflow'] > 0) & (df['Payment Status'] == 'Overdue')] if len(df) > 0
OverdueRows(df) == SelectSeq(df.rows, LAMBDA r : r.In > 0 /\ r.Status = "Overdue")

PendingRows(df) == SelectSeq(df.rows, LAMBDA r : r.Out > 0 /\ r.Status = "Pending")

PartiesOf(rows) == {rows[i].Party : i \in DOMAIN rows}

\* groupby('Party Name')[col].sum()
GroupSum(rows, col) ==
    [p \in PartiesOf(rows) |-> SumOf(SelectSeq(rows, LAMBDA r : r.Party = p), col)]

\* sort_values(ascending=False): every descending order of the keys in S.
RECURSIVE SortValuesDesc(_, _)
SortValuesDesc(tot, S) ==
    IF S = {} THEN {<<>>}
    ELSE UNION {{<<p>> \o t : t \in SortValuesDesc(tot, S \ {p})} :
                p \in {q \in S : \A o \in S : tot[q] >= tot[o]}}

\* Mutant: the ranking is not cut.
HeadN_All(s, n) == s

\* .head(n)
HeadN(s, n) == SubSeq(s, 1, IF Len(s) < n THEN Len(s) ELSE n)

\* The orders .groupby(...).sum().sort_values(ascending=False).head(10) may give.
TopParties(rows, col) ==
    LET tot == GroupSum(rows, col)
    IN  {HeadN(o, TopN) : o \in SortValuesDesc(tot, DOMAIN tot)}

\* Mutant: the percentage is cut, not rounded.
Pct_Truncated(amount, total) == (amount * PctScale) \div total

\* amount / total * 100 formatted :.1f, in tenths of a percent
Pct(amount, total) ==
    IF IsTie(amount * PctScale, total)
    THEN FormatFixed(FloatMulSmall(FloatDiv(amount, total), 100), TenthScale)
    ELSE Nearest(amount * PctScale, total)

\* The status lines under a total: emitted only when the total is positive.
Breakdown(rows, col, total) ==
    IF total > 0
    THEN [shown |-> TRUE,
          paid |-> Pct(SumOf(WithStatus(rows, "Paid"), col), total),
          pending |-> Pct(SumOf(WithStatus(rows, "Pending"), col), total),
          overdue |-> Pct(SumOf(WithStatus(rows, "Overdue"), col), total)]
    ELSE [shown |-> FALSE]

\* The ranked table: rank i is order[i], its aggregate and its share.
Ranked(rows, col, order, total) ==
    [i \in DOMAIN order |->
        LET amount == GroupSum(rows, col)[order[i]]
        IN  [name |-> order[i], amount |-> amount,
             pct |-> IF total > 0 THEN Pct(amount, total) ELSE 0]]

\* "Top 10 Customers - Payment Status Breakdown"
StatusByCustomer(rows, order) ==
    [i \in DOMAIN order |->
        LET mine == SelectSeq(rows, LAMBDA r : r.Party = order[i])
        IN  [name |-> order[i],
             paid |-> SumOf(WithStatus(mine, "Paid"), "In"),
             pending |-> SumOf(WithStatus(mine, "Pending"), "In"),
             overdue |-> SumOf(WithStatus(mine, "Overdue"), "In")]]

\* Mutant: the age is anchored to the first clock reading, not to the call.
DaysSince_Static(t, date) == (DayTicks - date) \div DayTicks

\* (pd.Timestamp.now() - row['Date']).days
DaysSince(t, date) == (t - date) \div DayTicks

\* One detail line per row of an aging section; the loop reads the clock once
\* for every row, ts[i] is the reading made for row i.
Detail(rows, col, ts) ==
    [i \in DOMAIN rows |->
        [name |-> rows[i].Party,
         amount |-> IF col = "In" THEN rows[i].In ELSE rows[i].Out,
         date |-> rows[i].Date \div DayTicks,
         days |-> DaysSince(ts[i], rows[i].Date)]]

\* The mean line: omitted for an empty section, else Series.mean() (the sum
\* over the count) in hundredths
MeanLine(rows, col) ==
    IF Len(rows) > 0
    THEN [shown |-> TRUE, cents |-> FormatQuotient(SumOf(rows, col), Len(rows), CentScale)]
    ELSE [shown |-> FALSE]

\* Mutant: the span is not raised to one day.
DateRange_Unclamped(rows) ==
    LET ds == [i \in DOMAIN rows |-> rows[i].Date]
    IN  (SeqMax(ds) - SeqMin(ds)) \div DayTicks

\* max((df['Date'].max() - df['Date'].min()).days, 1)
DateRange(rows) ==
    LET ds == [i \in DOMAIN rows |-> rows[i].Date]
    IN  Max2((SeqMax(ds) - SeqMin(ds)) \div DayTicks, 1)

\* daily_burn as the exact quotient num/den (den >= 1)
DailyBurn(rows, total_inflow, total_outflow) ==
    IF Len(rows) > 1
    THEN [num |-> total_outflow - total_inflow, den |-> DateRange(rows)]
    ELSE [num |-> 0, den |-> 1]

\* Mutant: the runway divides by the net outflow, not by the daily rate.
Runway_NoSpan(current_balance, burn) ==
    IF burn.num > 0
    THEN [kind |-> "days", num |-> current_balance, den |-> burn.num,
          tenths |-> FormatQuotient(current_balance, burn.num, TenthScale)]
    ELSE [kind |-> "indefinite"]

\* cash_runway_days: current_balance / daily_burn when daily_burn > 0, else inf.
\* The numeric line is written when the value differs from inf.
Runway(current_balance, burn) ==
    IF burn.num > 0
    THEN [kind |-> "days", num |-> current_balance * burn.den, den |-> burn.num,
          tenths |-> IF IsTie(current_balance * burn.den * TenthScale, burn.num)
                    THEN FormatFixed(IntDivFloat(current_balance,
                                                 FloatDiv(burn.num, burn.den)), TenthScale)
                    ELSE Nearest(current_balance * burn.den * TenthScale, burn.num)]
    ELSE [kind |-> "indefinite"]

\* Mutant: a zero outflow is reported as the ratio 0.00x.
WorkingCapital_ZeroRatio(total_inflow, total_outflow) ==
    IF total_outflow > 0
    THEN [kind |-> "ratio", cents |-> FormatQuotient(total_inflow, total_outflow, CentScale)]
    ELSE [kind |-> "ratio", cents |-> 0]

\* "Working Capital Ratio: {in/out:.2f}x" if total_outflow > 0 else "... N/A"
WorkingCapital(total_inflow, total_outflow) ==
    IF total_outflow > 0
    THEN [kind |-> "ratio", cents |-> FormatQuotient(total_inflow, total_outflow, CentScale)]
    ELSE [kind |-> "N/A"]

SectionHeaders ==
    <<"CASH POSITION SNAPSHOT", "INFLOW ANALYSIS (Revenue)", "OUTFLOW ANALYSIS (Expenses)",
      "OVERDUE RECEIVABLES ANALYSIS", "PENDING PAYABLES ANALYSIS", "KEY FINANCIAL METRICS">>

\* The column lookups that raise KeyError on a table with rows before the
\* overdue detail is written: crew.py 46, 47, 59, 74, 96, 111, 120.
RaisesBeforeDetail(df) ==
    /\ Len(df.rows) > 0
    /\ \/ ~({"Running Balance", "Date", "Cash Inflow", "Payment Status"} \subseteq df.cols)
       \/ /\ "Party Name" \notin df.cols
          /\ Inflows(df) # <<>> \/ Outflows(df) # <<>>

\* Mutant: the column lookups are made on a table without rows too.
Raises_NoLenGuard(df) ==
    ~({"Running Balance", "Date", "Cash Inflow", "Cash Outflow", "Payment Status"}
         \subseteq df.cols)

\* The column lookups that raise KeyError on a table with rows; the last of
\* them is df['Cash Outflow'] in the pending filter (crew.py 138), after the
\* overdue detail.
Raises(df) ==
    \/ RaisesBeforeDetail(df)
    \/ Len(df.rows) > 0 /\ "Cash Outflow" \notin df.cols

Raised == [kind |-> "raised", exc |-> "KeyError"]

\* The number of times a call reads the clock: once for latest_date on a table
\* without rows (crew.py 47), else once per overdue row (134) and once per
\* pending row (152).  A call that raises before the overdue detail reads
\* nothing; one that raises at the pending filter (138) has read the clock for
\* every overdue row.
ClockReads(df) ==
    IF Len(df.rows) = 0 THEN 1
    ELSE IF RaisesBeforeDetail(df) THEN 0
    ELSE IF "Cash Outflow" \notin df.cols THEN Len(OverdueRows(df))
    ELSE Len(OverdueRows(df)) + Len(PendingRows(df))

\* The report generate_cash_flow_analysis(df) writes when its clock readings are
\* ts, in the order they are made; customers and vendors are the outcomes of
\* the two sort_values calls.
Report(df, ts, customers, vendors) ==
    LET n == Len(df.rows)
        current_balance == IF n > 0 THEN df.rows[n].RB ELSE 0
        latest_date == IF n > 0 THEN df.rows[n].Date \div DayTicks ELSE ts[1] \div DayTicks
        inflows == Inflows(df)
        outflows == Outflows(df)
        total_inflow == SumOf(inflows, "In")
        total_outflow == SumOf(outflows, "Out")
        overdue == IF n > 0 THEN OverdueRows(df) ELSE <<>>
        pending == IF n > 0 THEN PendingRows(df) ELSE <<>>
        daily_burn == DailyBurn(df.rows, total_inflow, total_outflow)
    IN  [kind |-> "report",
         sections |-> SectionHeaders,
         current_balance |-> current_balance,
         latest_date |-> latest_date,
         n_rows |-> n,
         total_inflow |-> total_inflow,
         paid_inflow |-> SumOf(WithStatus(inflows, "Paid"), "In"),
         pending_inflow |-> SumOf(WithStatus(inflows, "Pending"), "In"),
         overdue_inflow |-> SumOf(WithStatus(inflows, "Overdue"), "In"),
         inflow_pct |-> Breakdown(inflows, "In", total_inflow),
         top_customers |-> Ranked(inflows, "In", customers, total_inflow),
         customer_status |-> StatusByCustomer(inflows, customers),
         total_outflow |-> total_outflow,
         paid_outflow |-> SumOf(WithStatus(outflows, "Paid"), "Out"),
         pending_outflow |-> SumOf(WithStatus(outflows, "Pending"), "Out"),
         overdue_outflow |-> SumOf(WithStatus(outflows, "Overdue"), "Out"),
         outflow_pct |-> Breakdown(outflows, "Out", total_outflow),
         top_vendors |-> Ranked(outflows, "Out", vendors, total_outflow),
         total_overdue |-> SumOf(overdue, "In"),
         n_overdue |-> Len(overdue),
         overdue_mean |-> MeanLine(overdue, "In"),
         overdue_detail |-> Detail(overdue, "In", SubSeq(ts, 1, Len(overdue))),
         total_pending |-> SumOf(pending, "Out"),
         n_pending |-> Len(pending),
         pending_mean |-> MeanLine(pending, "Out"),
         pending_detail |-> Detail(pending, "Out",
                                   SubSeq(ts, Len(overdue) + 1, Len(overdue) + Len(pending))),
         net_cash_flow |-> total_inflow - total_outflow,
         daily_burn |-> daily_burn,
         runway |-> Runway(current_balance, daily_burn),
         working_capital |-> WorkingCapital(total_inflow, total_outflow)]

\* Every value a call generate_cash_flow_analysis(df) with the clock readings ts
\* may return.
generate_cash_flow_analysis(df, ts) ==
    IF Raises(df) THEN {Raised}
    ELSE {Report(df, ts, c, v) : c \in TopParties(Inflows(df), "In"),
                                 v \in TopParties(Outflows(df), "Out")}

-----------------------------------------------------------------------------
(* Tables and builder calls: a caller assembles a workbook, then calls the  *)
(* report builder on it as it is, or uploads it (process_excel) and calls   *)
(* the builder on the table the upload stored.                              *)

ColumnSets == {AllCols, RequiredCols, AllCols \ {"Cash Outflow"}}

InAmounts == 0 .. MaxAmt
OutAmounts == (0 .. MaxAmt) \cup {-1}
Balances == {-1, 1}

NowInit == (MaxDay + 1) * DayTicks + 1

Rows(cols) ==
    [Date : Dates, Party : Parties, In : InAmounts,
     Out : IF "Cash Outflow" \in cols THEN OutAmounts ELSE {0},
     Status : Statuses,
     RB : IF "Running Balance" \in cols THEN Balances ELSE {0}]

ReportFiles == {"cash_flow_analysis.md", "risk_assessment.md", "financial_health_report.md"}

NoData == [kind |-> "No data available"]

Failure == [kind |-> "error", paths |-> {}]
Success == [kind |-> "ok", paths |-> ReportFiles]

\* A run_ai_analysis invocation: its position, its arguments, the report its
\* generate step returned, the task builders under way (position in crew(),
\* descriptions formatted and not yet used), the Task objects constructed, the
\* number of tasks the kickoff has run, the numbered steps of main.py it went
\* through, the files its check found, and its result.
IdleRun ==
    [pc |-> "idle", df |-> None, send_email |-> FALSE, report |-> None, at |-> 0,
     pending |-> <<>>, tasks |-> <<>>, ran |-> 0, steps |-> <<>>, seen |-> {},
     result |-> None]

\* No run_ai_analysis call is made: the builder and the upload step alone.
NoRuns ==
    /\ run = [r \in {} |-> IdleRun]
    /\ files = {}
    /\ emails = <<>>
    /\ api_key = TRUE
    /\ cwd = "report_dir"
    /\ memoized = TRUE

Fresh(t) ==
    /\ df_state = None
    /\ upload_output = "initial"
    /\ cash_flow_report_data = None
    /\ ret = None
    /\ prev = None
    /\ now = t
    /\ gen_at = <<>>
    /\ arg = None
    /\ phase = "edit"

Init ==
    /\ file \in {Table(c, <<>>) : c \in ColumnSets}
    /\ Fresh(NowInit)
    /\ NoRuns

\* One more row r of the workbook.
Extend(r) ==
    /\ phase = "edit"
    /\ file' = [file EXCEPT !.rows = Append(@, r)]
    /\ UNCHANGED <<df_state, upload_output, cash_flow_report_data, ret, prev, now, gen_at,
                   arg, phase, run, files, emails, api_key, cwd,
                   memoized>>

AddRow ==
    /\ Len(file.rows) < MaxRows
    /\ \E r \in Rows(file.cols) : Extend(r)

\* process_and_generate_dashboard, main.py 218-222: the message and the table of
\* process_excel go to upload_output and df_state.
Upload ==
    /\ phase = "edit"
    /\ \E order \in SortValuesDate(file.rows, DOMAIN file.rows) :
          LET out == process_excel(file, order)
          IN  /\ upload_output' = out.msg
              /\ df_state' = out.df
    /\ phase' = "uploaded"
    /\ UNCHANGED <<file, cash_flow_report_data, ret, prev, now, gen_at, arg, run, files,
                   emails, api_key, cwd,
                   memoized>>

\* The k clock readings of a call that starts at t: none earlier than the one
\* before, the clock moving by at most MaxDrift ticks while the call runs.
Readings(t, k) ==
    {ts \in [1 .. k -> t .. (IF t + MaxDrift < MaxNow THEN t + MaxDrift ELSE Max2(t, MaxNow))] :
        \A i, j \in 1 .. k : i <= j => ts[i] <= ts[j]}

\* Mutant: the builder writes a helper column into the table it was given.
Generate_InPlace(df) ==
    /\ \E ts \in Readings(now, ClockReads(df)) :
          /\ \E rep \in generate_cash_flow_analysis(df, ts) :
                /\ ret' = rep
                /\ cash_flow_report_data' = IF rep.kind = "report" THEN rep
                                            ELSE cash_flow_report_data
          /\ gen_at' = IF gen_at = <<>> THEN <<ts>> ELSE <<gen_at[Len(gen_at)], ts>>
          /\ now' = IF ClockReads(df) = 0 THEN now ELSE ts[ClockReads(df)]
    /\ prev' = cash_flow_report_data
    /\ arg' = df
    /\ file' = IF file = df THEN [file EXCEPT !.cols = @ \cup {"Days Overdue"}] ELSE file
    /\ df_state' = IF df_state = df THEN [df_state EXCEPT !.cols = @ \cup {"Days Overdue"}]
                   ELSE df_state

\* A call generate_cash_flow_analysis(df): the report is returned and stored in
\* the class variable; a call that raises stores nothing.  The clock is read
\* as the call goes, also by a call that raises later, and stands at the last
\* reading when the call ends.  The builder works on filtered copies (.copy())
\* and on new Series; the table it was given, held by the caller, stays as it
\* is.
Generate(df) ==
    /\ \E ts \in Readings(now, ClockReads(df)) :
          /\ \E rep \in generate_cash_flow_analysis(df, ts) :
                /\ ret' = rep
                /\ cash_flow_report_data' = IF rep.kind = "report" THEN rep
                                            ELSE cash_flow_report_data
          /\ gen_at' = IF gen_at = <<>> THEN <<ts>> ELSE <<gen_at[Len(gen_at)], ts>>
          /\ now' = IF ClockReads(df) = 0 THEN now ELSE ts[ClockReads(df)]
    /\ prev' = cash_flow_report_data
    /\ arg' = df
    /\ UNCHANGED <<file, df_state>>

\* The builder called on the caller's table as it is.
BuilderCall ==
    /\ phase = "edit"
    /\ Generate(file)
    /\ phase' = "done"
    /\ UNCHANGED <<upload_output, run, files, emails, api_key, cwd,
                   memoized>>

\* The builder called on the table the upload stored.
BuilderCallStored ==
    /\ phase = "uploaded"
    /\ df_state # None
    /\ Generate(df_state)
    /\ phase' = "done"
    /\ UNCHANGED <<upload_output, run, files, emails, api_key, cwd,
                   memoized>>

Next == AddRow \/ Upload \/ BuilderCall \/ BuilderCallStored

Spec == Init /\ [][Next]_vars

Generated == phase = "done" /\ ret.kind = "report"

-----------------------------------------------------------------------------
(* Claims about the report builder, checked under Spec *)

\* Sum of f over the finite set S, in no particular order.
RECURSIVE SetSum(_, _)
SetSum(f, S) ==
    IF S = {} THEN 0
    ELSE LET x == CHOOSE y \in S : TRUE IN f[x] + SetSum(f, S \ {x})

InAt(rows) == [i \in DOMAIN rows |-> rows[i].In]
OutAt(rows) == [i \in DOMAIN rows |-> rows[i].Out]
InflowIdx(rows) == {i \in DOMAIN rows : rows[i].In > 0}
OutflowIdx(rows) == {i \in DOMAIN rows : rows[i].Out > 0}
InflowTotal(rows) == SetSum(InAt(rows), InflowIdx(rows))
OutflowTotal(rows) == SetSum(OutAt(rows), OutflowIdx(rows))
InflowWith(rows, s) == SetSum(InAt(rows), {i \in InflowIdx(rows) : rows[i].Status = s})
InflowUnlisted(rows) ==
    SetSum(InAt(rows), {i \in InflowIdx(rows) :
                           rows[i].Status \notin {"Paid", "Pending", "Overdue"}})

\* C3 as stated: for every non-empty table the total inflow of the report equals
\* the sum of its Paid, Pending and Overdue inflow amounts.
C3_BucketsSumToTotal ==
    (Generated /\ Len(arg.rows) > 0) =>
        ret.total_inflow = ret.paid_inflow + ret.pending_inflow + ret.overdue_inflow

\* C3 amended: the total inflow equals the Paid, Pending and Overdue amounts plus
\* the inflow of the rows whose status is none of the three; the three buckets
\* sum to the total when no inflow-bearing row has another status.
C3_BucketsPartitionInflow ==
    Generated =>
        LET rows == arg.rows
        IN  /\ ret.total_inflow = InflowTotal(rows)
            /\ ret.paid_inflow = InflowWith(rows, "Paid")
            /\ ret.pending_inflow = InflowWith(rows, "Pending")
            /\ ret.overdue_inflow = InflowWith(rows, "Overdue")
            /\ ret.total_inflow = ret.paid_inflow + ret.pending_inflow
                                    + ret.overdue_inflow + InflowUnlisted(rows)
            /\ (\A i \in InflowIdx(rows) : rows[i].Status \in {"Paid", "Pending", "Overdue"})
                  => ret.total_inflow = ret.paid_inflow + ret.pending_inflow
                                          + ret.overdue_inflow

\* A report over a Paid inflow and a Pending inflow, every status among the three.
C3_Witness ==
    /\ Generated
    /\ ret.paid_inflow > 0
    /\ ret.pending_inflow > 0
    /\ InflowUnlisted(arg.rows) = 0
    /\ ret.total_inflow = ret.paid_inflow + ret.pending_inflow

\* C4 as stated, on the tables it names: in a report over a table whose running
\* balance process_excel computed, the runway is the indefinite text or a
\* non-negative number of days.
C4_RunwayNeverNegative ==
    (Generated /\ df_state # None /\ "Running Balance" \notin file.cols) =>
        (ret.runway.kind = "days" => ret.runway.num >= 0)

\* C5: a positive daily burn rate gives the numeric runway line with
\* current_balance / daily_burn; a burn rate <= 0 (a table of 0 or 1 rows
\* included) gives the indefinite line; one of the two, never both.
C5_RunwayBranches ==
    Generated =>
        LET rows == arg.rows
            burn == ret.daily_burn
            bal == IF Len(rows) > 0 THEN rows[Len(rows)].RB ELSE 0
            positive == Len(rows) > 1 /\ OutflowTotal(rows) > InflowTotal(rows)
        IN  /\ burn.den >= 1
            /\ (burn.num > 0) <=> positive
            /\ ret.runway.kind \in {"days", "indefinite"}
            /\ burn.num > 0 =>
                  /\ ret.runway.kind = "days"
                  /\ ret.runway.den > 0
                  /\ ret.runway.num * burn.num = bal * burn.den * ret.runway.den
                  /\ 2 * Abs(ret.runway.tenths * ret.runway.den - TenthScale * ret.runway.num)
                        <= ret.runway.den
            /\ burn.num <= 0 => ret.runway.kind = "indefinite"
            /\ Len(rows) <= 1 => (burn.num = 0 /\ ret.runway.kind = "indefinite")

\* A report with a positive burn rate over a span of more than one day.
C5_Witness ==
    /\ Generated
    /\ ret.daily_burn.num > 0
    /\ ret.daily_burn.den > 1
    /\ ret.runway.kind = "days"
    /\ ret.current_balance # 0

\* The clock readings of the last generate call, in the order they were made.
LastReadings == gen_at[Len(gen_at)]

\* C7: on a table without rows (the required columns present) the builder does
\* not raise and returns the six sections with zero totals, a zero balance, a
\* count of 0, the indefinite runway and the ratio N/A; the snapshot is dated
\* at the one clock reading the call makes.
C7_EmptyTable ==
    (phase = "done" /\ df_state = None /\ file.rows = <<>>) =>
        /\ ret.kind = "report"
        /\ Len(LastReadings) = 1
        /\ cash_flow_report_data = ret
        /\ ret.sections = SectionHeaders
        /\ Len(ret.sections) = 6
        /\ ret.total_inflow = 0
        /\ ret.total_outflow = 0
        /\ ret.total_overdue = 0
        /\ ret.total_pending = 0
        /\ ret.current_balance = 0
        /\ ret.n_rows = 0
        /\ ret.latest_date = LastReadings[1] \div DayTicks
        /\ LastReadings[1] <= now
        /\ ret.runway.kind = "indefinite"
        /\ ret.working_capital.kind = "N/A"
        /\ ~ret.inflow_pct.shown /\ ~ret.outflow_pct.shown
        /\ ret.top_customers = <<>> /\ ret.top_vendors = <<>>
        /\ ret.overdue_detail = <<>> /\ ret.pending_detail = <<>>

\* The builder has returned on a table with the five required columns and no row.
C7_Witness ==
    /\ phase = "done"
    /\ df_state = None
    /\ file.rows = <<>>
    /\ file.cols = RequiredCols
    /\ ret.kind = "report"

\* C9: the ratio line is total inflow / total outflow (two decimals) when the
\* total outflow is positive, as in 150 / 50 = 3.00x, and N/A when it is zero,
\* whatever the inflow.
C9_WorkingCapitalRatio ==
    /\ WorkingCapital(150, 50) = [kind |-> "ratio", cents |-> 300]
    /\ WorkingCapital(150, 0) = [kind |-> "N/A"]
    /\ Generated =>
          LET tin == InflowTotal(arg.rows)
              tout == OutflowTotal(arg.rows)
              wc == ret.working_capital
          IN  /\ ret.total_outflow = tout
              /\ tout > 0 =>
                    /\ wc.kind = "ratio"
                    /\ 2 * Abs(wc.cents * tout - CentScale * tin) <= tout
              /\ tout = 0 => wc = [kind |-> "N/A"]

\* A report with inflow 2 and outflow 1 (2.00x).
C9_Witness ==
    /\ Generated
    /\ ret.total_inflow = 2
    /\ ret.total_outflow = 1
    /\ ret.working_capital = [kind |-> "ratio", cents |-> 200]

-----------------------------------------------------------------------------
(* Claims about the upload step and the table it stores, checked under Spec *)

NetAt(rows) == [i \in DOMAIN rows |-> rows[i].In - Abs(rows[i].Out)]

\* Sum of the inflows minus the sum of the magnitudes of the outflows.
NetSum(rows) == SetSum(NetAt(rows), DOMAIN rows)

IsSortedByDate(rows) ==
    \A i, j \in DOMAIN rows : i < j => rows[i].Date <= rows[j].Date

LatestDay(rows) ==
    CHOOSE d \in {rows[i].Date \div DayTicks : i \in DOMAIN rows} :
        \A i \in DOMAIN rows : rows[i].Date \div DayTicks <= d

LastRow(df) == df.rows[Len(df.rows)]

\* C11 as stated, on date-sorted tables: the last row of every table that
\* process_excel returned carries the net sum of the table as its Running
\* Balance, whether the column was computed or supplied.
C11_LastBalanceIsNetSum ==
    (upload_output = "ok" /\ IsSortedByDate(df_state.rows)) =>
        LastRow(df_state).RB = NetSum(df_state.rows)

\* C11 amended: when the upload has no Running Balance column, the returned
\* table is in ascending date order, every row carries the net sum of the rows
\* up to it, and the last row the net sum of the whole upload; a supplied
\* Running Balance column is returned as it was uploaded.
C11_ComputedBalanceIsNet ==
    upload_output = "ok" =>
        IF "Running Balance" \notin file.cols
        THEN /\ IsSortedByDate(df_state.rows)
             /\ Len(df_state.rows) = Len(file.rows)
             /\ \A i \in DOMAIN df_state.rows :
                   df_state.rows[i].RB = NetSum(SubSeq(df_state.rows, 1, i))
             /\ LastRow(df_state).RB = NetSum(file.rows)
        ELSE df_state = file

\* A computed balance over an inflow and an outflow entered as a negative number,
\* uploaded latest row first.
C11_Witness ==
    /\ upload_output = "ok"
    /\ "Running Balance" \notin file.cols
    /\ Len(file.rows) = 2
    /\ file.rows[1].Date > file.rows[2].Date
    /\ file.rows[1].Out < 0
    /\ file.rows[2].In > 0
    /\ LastRow(df_state).RB = 0

\* C12 as stated: every table the upload step stores for the report builder is in
\* ascending date order, and a report over it is dated at the latest transaction.
C12_UploadedTablesSorted ==
    upload_output = "ok" =>
        /\ IsSortedByDate(df_state.rows)
        /\ Generated => ret.latest_date = LatestDay(df_state.rows)

\* C14 as stated: a builder call on a table with rows that lacks the optional
\* Running Balance column does not raise and returns the full report.
C14_NoRaiseOnMissingOptional ==
    (phase = "done" /\ Len(arg.rows) > 0 /\ "Running Balance" \notin arg.cols) =>
        /\ ret.kind = "report"
        /\ ret.sections = SectionHeaders

\* C15: a generate_cash_flow_analysis call, whether it returns a report or
\* raises, leaves the table it was given (the caller's table or the stored
\* one) with the same columns, rows and values.
C15_InputUnchanged ==
    [][(phase # "done" /\ phase' = "done") => (file' = file /\ df_state' = df_state)]_vars

\* A report over a stored table of two rows with an overdue receivable and a
\* pending payable, the sections the builder filters and copies.
C15_Witness ==
    /\ Generated
    /\ df_state # None
    /\ Len(df_state.rows) = 2
    /\ ret.n_overdue = 1
    /\ ret.n_pending = 1
    /\ df_state.cols = AllCols

OverdueIdx(rows) == {i \in DOMAIN rows : rows[i].In > 0 /\ rows[i].Status = "Overdue"}

\* The k-th index of S in ascending order.
NthOf(S, k) == CHOOSE i \in S : Cardinality({j \in S : j <= i}) = k

\* Whole days from date to t, rounded down.
WholeDays(t, date) ==
    CHOOSE d \in -(MaxDay + 2) .. MaxNow :
        d * DayTicks <= t - date /\ t - date < (d + 1) * DayTicks

\* C16: the overdue receivables section counts and totals exactly the rows with
\* inflow > 0 and status Overdue, lists one detail line for each of them in table
\* order (counterparty, amount, date, days overdue: the whole days from the date
\* to the clock reading made for the line) and none for another row, and shows
\* the mean line exactly when there is such a row.
C16_OverdueSection ==
    Generated =>
        LET rows == arg.rows
            S == OverdueIdx(rows)
        IN  /\ ret.n_overdue = Cardinality(S)
            /\ ret.total_overdue = SetSum(InAt(rows), S)
            /\ DOMAIN ret.overdue_detail = 1 .. Cardinality(S)
            /\ \A k \in 1 .. Cardinality(S) :
                  LET r == rows[NthOf(S, k)]
                      line == ret.overdue_detail[k]
                  IN  /\ line.name = r.Party
                      /\ line.amount = r.In
                      /\ line.date * DayTicks <= r.Date
                      /\ r.Date < (line.date + 1) * DayTicks
                      /\ line.days = WholeDays(LastReadings[k], r.Date)
            /\ \A k \in 1 .. Cardinality(S) - 1 : LastReadings[k] <= LastReadings[k + 1]
            /\ ret.overdue_mean.shown <=> Cardinality(S) > 0
            /\ ret.overdue_mean.shown =>
                  2 * Abs(ret.overdue_mean.cents * Cardinality(S)
                            - CentScale * ret.total_overdue) <= Cardinality(S)

\* A report over an overdue receivable and an Overdue row without inflow: one
\* invoice counted and listed, the other row left out.
C16_Witness ==
    /\ Generated
    /\ Len(arg.rows) = 2
    /\ \E i \in DOMAIN arg.rows : arg.rows[i].Status = "Overdue" /\ arg.rows[i].In = 0
                                    /\ arg.rows[i].Out > 0
    /\ ret.n_overdue = 1
    /\ Len(ret.overdue_detail) = 1
    /\ ret.overdue_mean.shown

\* C19: in a report over a table whose Running Balance process_excel computed
\* from non-negative inflow and outflow amounts, the current cash balance equals
\* the net cash flow (total inflow minus total outflow); so a positive daily burn
\* rate comes with a negative current balance.
C19_BalanceIsNetCashFlow ==
    (/\ Generated
     /\ df_state # None
     /\ "Running Balance" \notin file.cols
     /\ \A i \in DOMAIN file.rows : file.rows[i].In >= 0 /\ file.rows[i].Out >= 0) =>
        /\ ret.net_cash_flow = InflowTotal(file.rows) - OutflowTotal(file.rows)
        /\ ret.current_balance = ret.net_cash_flow
        /\ ret.daily_burn.num > 0 => ret.current_balance < 0

\* A report over a computed balance of two rows with non-negative amounts where
\* outflow exceeds inflow: the burn rate is positive, the balance equals the net
\* cash flow and is negative.
C19_Witness ==
    /\ Generated
    /\ df_state # None
    /\ "Running Balance" \notin file.cols
    /\ Len(file.rows) = 2
    /\ \A i \in DOMAIN file.rows : file.rows[i].In >= 0 /\ file.rows[i].Out >= 0
    /\ ret.daily_burn.num > 0
    /\ ret.current_balance = ret.net_cash_flow
    /\ ret.current_balance < 0

-----------------------------------------------------------------------------
(* The three-transaction scenario and its neighbourhood: workbooks made of   *)
(* the scenario's rows in any order and number, without a balance column,    *)
(* uploaded, the builder called on the stored table.                        *)

MaxScenarioRows == 3

ScenarioRows ==
    <<[Date |-> 1 * DayTicks, Party |-> "Acme", In |-> 1000, Out |-> 0,
       Status |-> "Paid", RB |-> 0],
      [Date |-> 2 * DayTicks, Party |-> "Acme", In |-> 0, Out |-> 400,
       Status |-> "Pending", RB |-> 0],
      [Date |-> 3 * DayTicks, Party |-> "Beta", In |-> 500, Out |-> 0,
       Status |-> "Overdue", RB |-> 0]>>

InitScenario ==
    /\ file = Table(RequiredCols, <<>>)
    /\ Fresh(NowInit)
    /\ NoRuns

AddScenarioRow ==
    /\ Len(file.rows) < MaxScenarioRows
    /\ \E i \in DOMAIN ScenarioRows : Extend(ScenarioRows[i])

NextScenario == AddScenarioRow \/ Upload \/ BuilderCallStored

SpecScenario == InitScenario /\ [][NextScenario]_vars

\* The workbook holds the three scenario rows, each once, in some order.
IsScenario ==
    /\ Len(file.rows) = 3
    /\ \A i \in DOMAIN ScenarioRows : \E j \in DOMAIN file.rows : file.rows[j] = ScenarioRows[i]

\* C8: for the scenario (Acme +1000 Paid on day 1, Acme -400 Pending on day 2,
\* Beta +500 Overdue on day 3), balance computed by process_excel, the report
\* has total inflow 1500, total outflow 400, net 1100, balance 1100, Acme first
\* among the customers with 1000 (66.7%), and exactly the Beta row of 500 in the
\* overdue receivables.
C8_Scenario ==
    (Generated /\ df_state # None /\ IsScenario) =>
        /\ ret.total_inflow = 1500
        /\ ret.total_outflow = 400
        /\ ret.net_cash_flow = 1100
        /\ ret.current_balance = 1100
        /\ ret.top_customers[1] = [name |-> "Acme", amount |-> 1000, pct |-> 667]
        /\ ret.n_overdue = 1
        /\ ret.total_overdue = 500
        /\ Len(ret.overdue_detail) = 1
        /\ ret.overdue_detail[1].name = "Beta"
        /\ ret.overdue_detail[1].amount = 500
        /\ ret.overdue_detail[1].date = 3

\* The scenario, entered in the order day 1, day 2, day 3, has been uploaded and reported on.
C8_Witness ==
    /\ Generated
    /\ df_state # None
    /\ file.rows = ScenarioRows
    /\ ret.n_rows = 3

-----------------------------------------------------------------------------
(* Regeneration as the clock advances: the builder is called on one table    *)
(* again and again while the wall clock moves.  Rows are dated at midnight   *)
(* of day 1 and inside day MaxDay; the clock starts at midnight of day 1, so *)
(* the later rows begin in the future.                                       *)

AgingDates == {DayTicks, MaxDay * DayTicks + 1}

AgingRows ==
    {[Date |-> d, Party |-> "Acme", In |-> k[1], Out |-> k[2], Status |-> k[3], RB |-> 0] :
        d \in AgingDates, k \in {<<1, 0, "Overdue">>, <<0, 1, "Pending">>, <<1, 0, "Paid">>}}

InitAging ==
    /\ file = Table(AllCols, <<>>)
    /\ Fresh(DayTicks)
    /\ NoRuns

AddAgingRow ==
    /\ Len(file.rows) < MaxRows
    /\ \E r \in AgingRows : Extend(r)

\* The wall clock moves on by one tick.
Tick ==
    /\ phase \in {"edit", "done"}
    /\ now < MaxNow
    /\ now' = now + 1
    /\ UNCHANGED <<file, df_state, upload_output, cash_flow_report_data, ret, prev, gen_at,
                   arg, phase, run, files, emails, api_key, cwd,
                   memoized>>

\* The builder called once more on the same table.
Regenerate ==
    /\ phase = "done"
    /\ Generate(file)
    /\ UNCHANGED <<upload_output, phase, run, files, emails, api_key, cwd,
                   memoized>>

NextAging == AddAgingRow \/ Tick \/ BuilderCall \/ Regenerate

SpecAging == InitAging /\ [][NextAging]_vars

\* The detail lines of one aging section in two successive reports over the same
\* table; told and tnew are the clock readings made for the lines of the first
\* and of the second report.
AgesGrow(old, new, told, tnew) ==
    /\ Len(old) = Len(new)
    /\ \A i \in DOMAIN new :
          LET e == tnew[i] - told[i]
          IN  /\ new[i].name = old[i].name
              /\ new[i].amount = old[i].amount
              /\ new[i].date = old[i].date
              /\ e >= 0
              /\ new[i].days >= old[i].days
              /\ e % DayTicks = 0 => new[i].days = old[i].days + e \div DayTicks
              /\ new[i].days - old[i].days \in {e \div DayTicks, e \div DayTicks + 1}

\* The readings numbered lo, lo + 1, ... of the call whose readings are ts
From(ts, lo) == SubSeq(ts, lo, Len(ts))

\* C10: over the same table, a line whose clock reading is d whole days
\* (d * DayTicks ticks) after the reading of the same line in an earlier report
\* shows a days-overdue or days-outstanding value larger by d; no value ever
\* decreases as the clock advances (a further part of a day adds nothing or one
\* day).
C10_AgingGrowsWithClock ==
    (Len(gen_at) = 2 /\ prev.kind = "report" /\ ret.kind = "report") =>
        /\ AgesGrow(prev.overdue_detail, ret.overdue_detail, gen_at[1], gen_at[2])
        /\ AgesGrow(prev.pending_detail, ret.pending_detail,
                    From(gen_at[1], Len(prev.overdue_detail) + 1),
                    From(gen_at[2], Len(ret.overdue_detail) + 1))

\* Two reports two whole days apart over a table with an overdue receivable and
\* a pending payable, the clock moving between the two lines of each report.
C10_Witness ==
    /\ Len(gen_at) = 2
    /\ Len(gen_at[1]) = 2 /\ Len(gen_at[2]) = 2
    /\ gen_at[1][2] > gen_at[1][1]
    /\ gen_at[2][1] - gen_at[1][1] = 2 * DayTicks
    /\ gen_at[2][2] - gen_at[1][2] = 2 * DayTicks
    /\ prev.kind = "report" /\ ret.kind = "report"
    /\ Len(ret.overdue_detail) = 1
    /\ Len(ret.pending_detail) = 1
    /\ ret.overdue_detail[1].days = prev.overdue_detail[1].days + 2
    /\ ret.pending_detail[1].days = prev.pending_detail[1].days + 2

EarliestDate(rows) ==
    CHOOSE d \in {rows[i].Date : i \in DOMAIN rows} : \A i \in DOMAIN rows : d <= rows[i].Date

LatestDate(rows) ==
    CHOOSE d \in {rows[i].Date : i \in DOMAIN rows} : \A i \in DOMAIN rows : rows[i].Date <= d

\* C17: on a table of more than one row the daily burn rate is (total outflow -
\* total inflow) over the date span, the span being the whole days between the
\* earliest and the latest date and at least 1; on a table of 0 rows or 1 row it
\* is zero; the divisor is never zero, rows sharing one date included.
C17_DailyBurn ==
    Generated =>
        LET rows == arg.rows
        IN  /\ ret.daily_burn.den >= 1
            /\ Len(rows) <= 1 => ret.daily_burn.num = 0
            /\ Len(rows) > 1 =>
                  LET days == WholeDays(LatestDate(rows), EarliestDate(rows))
                  IN  /\ ret.daily_burn.den = IF days >= 1 THEN days ELSE 1
                      /\ ret.daily_burn.num = OutflowTotal(rows) - InflowTotal(rows)

\* A report over two payables dated a fractional number of days apart: the span
\* is rounded down to whole days and the burn rate is positive.
C17_Witness ==
    /\ Generated
    /\ Len(arg.rows) = 2
    /\ (LatestDate(arg.rows) - EarliestDate(arg.rows)) % DayTicks # 0
    /\ ret.daily_burn.den >= 2
    /\ ret.daily_burn.den * DayTicks < LatestDate(arg.rows) - EarliestDate(arg.rows)
    /\ ret.daily_burn.num = 2

-----------------------------------------------------------------------------
(* Ranking with more than ten counterparties: row k names counterparty k and *)
(* carries one of two amounts, all rows on the inflow side or all on the    *)
(* outflow side, so that the lowest counterparties may tie and eleven are    *)
(* reached.  After a first builder call the rows are permuted and the        *)
(* builder is called again.                                                  *)

MaxRankParties == 11
TieZone == 3

RankNames ==
    <<"P01", "P02", "P03", "P04", "P05", "P06", "P07", "P08", "P09", "P10",
      "P11", "P12", "P13", "P14">>

RankRow(k, side, a) ==
    [Date |-> DayTicks, Party |-> RankNames[k],
     In |-> IF side = "In" THEN a ELSE 0, Out |-> IF side = "Out" THEN a ELSE 0,
     Status |-> "Paid", RB |-> 0]

InitRank ==
    /\ file = Table(AllCols, <<>>)
    /\ Fresh(NowInit)
    /\ NoRuns

\* Amounts of row k: neighbours among the first TieZone rows may tie.
RankAmounts(k) == IF k <= TieZone THEN {k, k + 1} ELSE {2 * k, 2 * k + 1}

AddRankRow ==
    /\ Len(file.rows) < MaxRankParties
    /\ LET k == Len(file.rows) + 1
       IN  \E side \in {"In", "Out"}, a \in RankAmounts(k) :
              /\ k > 1 => (side = "In") <=> (file.rows[1].In > 0)
              /\ Extend(RankRow(k, side, a))

Reversed(s) == [i \in DOMAIN s |-> s[Len(s) + 1 - i]]

SwapFirstTwo(s) == [i \in DOMAIN s |-> IF i = 1 THEN s[2] ELSE IF i = 2 THEN s[1] ELSE s[i]]

\* The caller reorders the rows of the table after a first report.
Permute ==
    /\ phase = "done"
    /\ Len(gen_at) = 1
    /\ Len(file.rows) >= 2
    /\ \E rows \in {Reversed(file.rows), SwapFirstTwo(file.rows)} :
          file' = [file EXCEPT !.rows = rows]
    /\ phase' = "permuted"
    /\ UNCHANGED <<df_state, upload_output, cash_flow_report_data, ret, prev, now, gen_at,
                   arg, run, files, emails, api_key, cwd,
                   memoized>>

\* The builder called on the permuted table.
BuilderCallAgain ==
    /\ phase = "permuted"
    /\ Generate(file)
    /\ phase' = "done"
    /\ UNCHANGED <<upload_output, run, files, emails, api_key, cwd,
                   memoized>>

NextRank == AddRankRow \/ BuilderCall \/ Permute \/ BuilderCallAgain

SpecRank == InitRank /\ [][NextRank]_vars

\* The aggregate of counterparty p on one side, over the rows in any order.
PartyTotal(rows, col, p) ==
    SetSum(IF col = "In" THEN InAt(rows) ELSE OutAt(rows),
           {i \in (IF col = "In" THEN InflowIdx(rows) ELSE OutflowIdx(rows)) :
               rows[i].Party = p})

Bearing(rows, col) ==
    {rows[i].Party : i \in (IF col = "In" THEN InflowIdx(rows) ELSE OutflowIdx(rows))}

NamesOf(ranked) == [i \in DOMAIN ranked |-> ranked[i].name]

\* ranked is a top-ten ranking of the counterparties of rows on side col.
IsTopTen(ranked, rows, col) ==
    LET all == Bearing(rows, col)
        listed == {ranked[i].name : i \in DOMAIN ranked}
    IN  /\ Len(ranked) <= 10
        /\ Len(ranked) = (IF Cardinality(all) < 10 THEN Cardinality(all) ELSE 10)
        /\ listed \subseteq all
        /\ \A i, j \in DOMAIN ranked : i # j => ranked[i].name # ranked[j].name
        /\ \A i \in DOMAIN ranked : ranked[i].amount = PartyTotal(rows, col, ranked[i].name)
        /\ \A i, j \in DOMAIN ranked : i < j => ranked[i].amount >= ranked[j].amount
        /\ \A p \in all \ listed : \A i \in DOMAIN ranked :
              PartyTotal(rows, col, p) <= ranked[i].amount

DistinctTotals(rows, col) ==
    \A p, q \in Bearing(rows, col) :
        p # q => PartyTotal(rows, col, p) # PartyTotal(rows, col, q)

\* C6: each ranking lists at most 10 counterparties in descending order of
\* their aggregates, none of the unlisted ones ahead of a listed one and none
\* added for a tie with rank 10; with distinct aggregates the ranking of a
\* permuted table is the same.
C6_TopTenRanking ==
    ret.kind = "report" =>
        /\ IsTopTen(ret.top_customers, file.rows, "In")
        /\ IsTopTen(ret.top_vendors, file.rows, "Out")
        /\ (Len(gen_at) = 2 /\ prev.kind = "report") =>
              /\ DistinctTotals(file.rows, "In") =>
                    NamesOf(ret.top_customers) = NamesOf(prev.top_customers)
              /\ DistinctTotals(file.rows, "Out") =>
                    NamesOf(ret.top_vendors) = NamesOf(prev.top_vendors)

\* Eleven customers, the one left out tied with rank 10, reported before and
\* after a permutation of the rows.
C6_Witness ==
    /\ ret.kind = "report"
    /\ Len(gen_at) = 2
    /\ Cardinality(Bearing(file.rows, "In")) = 11
    /\ Len(ret.top_customers) = 10
    /\ \E p \in Bearing(file.rows, "In") :
          /\ \A i \in DOMAIN ret.top_customers : ret.top_customers[i].name # p
          /\ PartyTotal(file.rows, "In", p) = ret.top_customers[10].amount

-----------------------------------------------------------------------------
(* run_ai_analysis, main.py 65-127, step by step.  A call waits inside      *)
(* kickoff (remote LLM requests) and inside the mail call; the server runs  *)
(* other handlers meanwhile, so the steps of several calls, the upload      *)
(* handler and other programs writing the report files interleave.          *)

Runs == {"A", "B"}

PipeRows ==
    {[Date |-> DayTicks, Party |-> "Acme", In |-> 1, Out |-> 0, Status |-> "Overdue", RB |-> 0],
     [Date |-> DayTicks, Party |-> "Beta", In |-> 0, Out |-> 1, Status |-> "Pending", RB |-> 0]}

\* The table the session of a run may hold in df_state: nothing, or the
\* processed upload of one row, a receivable for one session and a payable for
\* the other.
PipeTables(r) ==
    {process_excel(Table(RequiredCols, <<row>>), <<row>>).df :
        row \in {x \in PipeRows : (x.In > 0) <=> (r = "A")}} \cup {None}

WorkingDirs == {"report_dir", "elsewhere"}

InitPipe ==
    /\ file = None
    /\ Fresh(MaxNow)
    /\ run = [r \in Runs |-> IdleRun]
    /\ files = {}
    /\ emails = <<>>
    /\ api_key \in BOOLEAN
    /\ cwd \in WorkingDirs
    /\ memoized \in BOOLEAN

Session == <<file, df_state, upload_output, phase>>

Env == <<api_key, cwd, memoized>>

\* The record of the last generate call.
Last == <<ret, prev, gen_at, arg>>

Return(r, result) == run' = [run EXCEPT ![r].pc = "returned", ![r].result = result]

\* The return that ends the call in or right after the numbered step of main.py.
ReturnAfter(r, step, result) ==
    run' = [run EXCEPT ![r].pc = "returned", ![r].result = result,
                       ![r].steps = Append(@, step)]

\* run_ai_analysis(df, owner_email, send_email) is entered.
Enter(r, df) ==
    /\ run[r].pc = "idle"
    /\ \E send \in BOOLEAN :
          run' = [run EXCEPT ![r].pc = "guard", ![r].df = df, ![r].send_email = send]
    /\ UNCHANGED <<Session, Env, Last, now, cash_flow_report_data, files, emails>>

\* A click handler calls run_ai_analysis with the table of its session.
Call(r) ==
    /\ run[r].pc = "idle"
    /\ \E df \in PipeTables(r) : Enter(r, df)

\* main.py 69-77: no table or no API key ends the call; else the crew object is
\* made, or Projectneon() raises and the except clause ends the call.
Guard(r) ==
    /\ run[r].pc = "guard"
    /\ IF run[r].df = None \/ ~api_key
       THEN Return(r, Failure)
       ELSE \/ run' = [run EXCEPT ![r].pc = "generate"]
            \/ Return(r, Failure)
    /\ UNCHANGED <<Session, Env, Last, now, cash_flow_report_data, files, emails>>

\* main.py 81: projectneon.generate_cash_flow_analysis(df); crew.py 184 stores
\* the report in the class variable.  A builder that raises ends the call.
GenerateStep(r) ==
    /\ run[r].pc = "generate"
    /\ Generate(run[r].df)
    /\ IF ret'.kind = "report"
       THEN run' = [run EXCEPT ![r].pc = "crew", ![r].report = ret',
                               ![r].steps = Append(@, "generate")]
       ELSE ReturnAfter(r, "generate", Failure)
    /\ UNCHANGED <<upload_output, phase, Env, files, emails>>

\* The text a task builder embeds (crew.py 231, 248, 266).
Embedded == IF cash_flow_report_data = None THEN NoData ELSE cash_flow_report_data

\* What a task builder does, in order: "describe" formats the description,
\* reading the class variable; "Task" constructs the Task object.
Describe(t) == [op |-> "describe", task |-> t]
Construct(t) == [op |-> "Task", task |-> t]

\* crew.py 223-240.
cash_flow_analysis_task ==
    <<Describe("cash_flow_analysis_task"), Construct("cash_flow_analysis_task")>>

\* self.cash_flow_analysis_task() or self.risk_assessment_task() inside a
\* context=[...] list (crew.py 257, 279).  The crew has called that builder
\* before: a memoising @task returns the Task built then, and nothing is read
\* or constructed; a plain @task runs the builder once more.
ContextTask(builder) == IF memoized THEN <<>> ELSE builder

\* crew.py 242-258: the description is formatted first, then
\* context=[self.cash_flow_analysis_task()] is evaluated, then Task(...).
risk_assessment_task ==
    <<Describe("risk_assessment_task")>> \o ContextTask(cash_flow_analysis_task)
        \o <<Construct("risk_assessment_task")>>

\* crew.py 260-280: context=[self.cash_flow_analysis_task(),
\* self.risk_assessment_task()].
communications_task ==
    <<Describe("communications_task")>> \o ContextTask(cash_flow_analysis_task)
        \o ContextTask(risk_assessment_task) \o <<Construct("communications_task")>>

\* crew(), crew.py 282-291: self.tasks holds the result of each task builder,
\* called in the order of definition.
crew == cash_flow_analysis_task \o risk_assessment_task \o communications_task

\* output_file of each task (crew.py 239, 256, 278).
OutputFile(t) ==
    CASE t = "cash_flow_analysis_task" -> "cash_flow_analysis.md"
      [] t = "risk_assessment_task" -> "risk_assessment.md"
      [] t = "communications_task" -> "financial_health_report.md"

\* The Task objects constructed after event i of crew without another read of
\* the class variable.  pending holds the descriptions formatted and not yet
\* used, the latest first; a task built while no other builder is under way
\* belongs to the crew, the others are objects made for the context of a later
\* task (none with a memoising @task: the context tasks are then the crew's
\* own).
RECURSIVE Constructed(_, _, _)
Constructed(i, pending, tasks) ==
    IF i < Len(crew) /\ crew[i + 1].op = "Task"
    THEN Constructed(i + 1, Tail(pending),
                     Append(tasks, [name |-> crew[i + 1].task,
                                    description |-> Head(pending),
                                    in_crew |-> Len(pending) = 1]))
    ELSE [at |-> i, pending |-> pending, tasks |-> tasks]

\* main.py 90, projectneon.crew(): one description is formatted, with the report
\* the class variable holds at that moment, and the constructions that follow;
\* or an agent builder (LLM(...), Agent(...), crew.py 187-221), Task(...) or
\* Crew(...) raises and the except clause ends the call.
BuildTask(r) ==
    /\ run[r].pc = "crew"
    /\ \/ LET c == Constructed(run[r].at + 1, <<Embedded>> \o run[r].pending, run[r].tasks)
          IN  run' = [run EXCEPT ![r].at = c.at, ![r].pending = c.pending,
                                 ![r].tasks = c.tasks,
                                 ![r].pc = IF c.at = Len(crew) THEN "kickoff" ELSE "crew"]
       \/ Return(r, Failure)
    /\ UNCHANGED <<Session, Env, Last, now, cash_flow_report_data, files, emails>>

\* The tasks of the crew, in the order they run (Process.sequential).
CrewTasks(r) == SelectSeq(run[r].tasks, LAMBDA t : t.in_crew)

\* main.py 90, kickoff(): the next task of the crew runs, waiting for the LLM.
\* It ends and its output file is written in the working directory, or it
\* raises and the except clause ends the call; kickoff returns after the last
\* task.
Kickoff(r) ==
    /\ run[r].pc = "kickoff"
    /\ \/ /\ ReturnAfter(r, "kickoff", Failure)
          /\ UNCHANGED files
       \/ LET t == CrewTasks(r)[run[r].ran + 1]
          IN  /\ files' = IF cwd = "report_dir" THEN files \cup {OutputFile(t.name)}
                          ELSE files
              /\ run' = IF run[r].ran + 1 = Len(CrewTasks(r))
                        THEN [run EXCEPT ![r].ran = @ + 1, ![r].pc = "files",
                                         ![r].steps = Append(@, "kickoff")]
                        ELSE [run EXCEPT ![r].ran = @ + 1]
    /\ UNCHANGED <<Session, Env, Last, now, cash_flow_report_data, emails>>

\* Mutant: the call goes on to the email step whatever files exist.
CheckFiles_Unchecked(r) ==
    /\ run[r].pc = "files"
    /\ run' = [run EXCEPT ![r].pc = "email", ![r].steps = Append(@, "check"),
                          ![r].seen = files]
    /\ UNCHANGED <<Session, Env, Last, now, cash_flow_report_data, files, emails>>

\* main.py 103-106: every report file must exist; seen is what path.exists()
\* found.
CheckFiles(r) ==
    /\ run[r].pc = "files"
    /\ IF ReportFiles \subseteq files
       THEN run' = [run EXCEPT ![r].pc = "email", ![r].steps = Append(@, "check"),
                               ![r].seen = files]
       ELSE run' = [run EXCEPT ![r].pc = "returned", ![r].result = Failure,
                               ![r].steps = Append(@, "check"), ![r].seen = files]
    /\ UNCHANGED <<Session, Env, Last, now, cash_flow_report_data, files, emails>>

\* Whether a mail with the reports of run r went out.
Mailed(r) == \E i \in DOMAIN emails : emails[i] = r

\* main.py 109-114 and 118-123: with send_email set send_reports_via_email is
\* called with the three paths; without it the success result is returned.
Email(r) ==
    /\ run[r].pc = "email"
    /\ IF run[r].send_email
       THEN run' = [run EXCEPT ![r].pc = "mail", ![r].steps = Append(@, "email")]
       ELSE Return(r, Success)
    /\ UNCHANGED <<Session, Env, Last, now, cash_flow_report_data, files, emails>>

\* email_service.send_reports_via_email (imported at main.py 13): while the call
\* is under way the mail with the reports of run r goes out.
send_reports_via_email(r) ==
    /\ run[r].pc = "mail"
    /\ ~Mailed(r)
    /\ emails' = Append(emails, r)
    /\ UNCHANGED <<Session, Env, Last, now, cash_flow_report_data, files, run>>

\* main.py 111-127: the mail call returns, with the mail sent or not, and the
\* success result follows (115-123); or it raises, before or after the mail
\* went out, and the except clause returns the error result (124-127).
EmailReturn(r) ==
    /\ run[r].pc = "mail"
    /\ Return(r, Success) \/ Return(r, Failure)
    /\ UNCHANGED <<Session, Env, Last, now, cash_flow_report_data, files, emails>>

\* The command-line program, src/neon/src/neon/main.py: run(), train(),
\* replay() and test() kick off the crew of src/neon/src/neon/crew.py, whose
\* communications_task alone has an output file.  Started in the directory of
\* main.py it leaves financial_health_report.md there.
NeonCrew ==
    /\ files' = files \cup {"financial_health_report.md"}
    /\ UNCHANGED <<Session, Env, Last, now, cash_flow_report_data, run, emails>>

\* The paths TextFileWriteTool._run is given: the report files or another file.
ToolPaths == ReportFiles \cup {"notes.txt"}

\* TextFileWriteTool._run(file_path, content), files_tool.py 34-41: the file is
\* written whatever its path.
TextFileWrite ==
    /\ \E file_path \in ToolPaths : files' = files \cup ({file_path} \cap ReportFiles)
    /\ UNCHANGED <<Session, Env, Last, now, cash_flow_report_data, run, emails>>

NextPipe ==
    \/ \E r \in Runs :
          Call(r) \/ Guard(r) \/ GenerateStep(r) \/ BuildTask(r) \/ Kickoff(r)
            \/ CheckFiles(r) \/ Email(r) \/ send_reports_via_email(r) \/ EmailReturn(r)
    \/ NeonCrew
    \/ TextFileWrite

SpecPipe == InitPipe /\ [][NextPipe]_vars

\* The Task objects of the crew of run r: cash_flow_analysis_task,
\* risk_assessment_task and communications_task.
TasksOf(r) == {run[r].tasks[i] : i \in {j \in DOMAIN run[r].tasks : run[r].tasks[j].in_crew}}

\* C1 as stated: every task of a run embeds the report that the run's own
\* generate_cash_flow_analysis call produced, whatever the other run does.
C1_ReportFrozenForRun ==
    \A r \in Runs : \A t \in TasksOf(r) : t.description = run[r].report

\* C2 as stated: the three tasks built for one crew embed the same report text.
C2_TasksShareSnapshot ==
    \A r \in Runs : \A t, u \in TasksOf(r) : t.description = u.description

StepOrder == <<"generate", "kickoff", "check", "email">>

\* The steps of a call are a prefix of generate, kickoff, check, email; tasks
\* are built and run only after the generate step, the check follows the third
\* task, and the mail call is made only with send_email set after a check that
\* found the three files.
InOrder(c) ==
    LET n == Len(c.steps)
    IN  /\ n <= 4 /\ c.steps = SubSeq(StepOrder, 1, n)
        /\ (c.ran > 0 \/ c.tasks # <<>>) => (n >= 1 /\ c.report # None)
        /\ n >= 3 => c.ran = 3
        /\ n = 4 => (c.send_email /\ ReportFiles \subseteq c.seen)

\* C18 as stated: the steps are in order; a mail goes out only with send_email
\* set and the three files found; the success result with the three paths is
\* returned only in that case (send_email set and the files found); without a
\* table, without the API key, with a file missing or a step raising, the call
\* returns the error result without paths and no mail went out.
C18_AsStated ==
    \A r \in Runs :
        LET c == run[r]
            n == Len(c.steps)
        IN  /\ InOrder(c)
            /\ Mailed(r) => (c.send_email /\ n >= 3 /\ ReportFiles \subseteq c.seen)
            /\ c.pc = "returned" =>
                  /\ c.result \in {Success, Failure}
                  /\ c.result = Success =>
                        /\ c.result.paths = ReportFiles
                        /\ c.send_email /\ n >= 3 /\ ReportFiles \subseteq c.seen
                  /\ c.result = Failure => (c.result.paths = {} /\ ~Mailed(r))
                  /\ (c.df = None \/ ~api_key) => c.result = Failure
                  /\ (n >= 3 /\ ~(ReportFiles \subseteq c.seen)) => c.result = Failure

\* C18, amended: the steps of a run_ai_analysis call happen in the order
\* generate, kickoff, file check, email.  A mail goes out only inside the mail
\* call, which is made only with send_email set after the check found the three
\* files.  The success result with the three paths is returned only after such
\* a check, with send_email set or not, and with send_email set only after the
\* mail call, whether or not a mail went out in it; a call with the files found
\* and send_email unset returns success.  A call without a table or without the
\* API key, a call whose check missed a file and a call in which a step raised
\* return the error result with no paths; no mail went out for it unless the
\* step that raised is the mail call.
C18_PipelineOrder ==
    \A r \in Runs :
        LET c == run[r]
            n == Len(c.steps)
        IN  /\ InOrder(c)
            /\ Mailed(r) => (c.send_email /\ n = 4 /\ ReportFiles \subseteq c.seen)
            /\ c.pc = "returned" =>
                  /\ c.result \in {Success, Failure}
                  /\ c.result = Success =>
                        /\ c.result.paths = ReportFiles
                        /\ c.df # None /\ api_key
                        /\ n >= 3 /\ ReportFiles \subseteq c.seen
                        /\ c.send_email <=> n = 4
                  /\ c.result = Failure => (c.result.paths = {} /\ (Mailed(r) => n = 4))
                  /\ (c.df = None \/ ~api_key) => (c.result = Failure /\ n = 0)
                  /\ (n >= 3 /\ ~(ReportFiles \subseteq c.seen)) => (c.result = Failure /\ n = 3)
                  /\ (n = 3 /\ ReportFiles \subseteq c.seen) =>
                        (c.result = Success /\ ~c.send_email)

\* Two calls that went through the check with the three files found: one with
\* send_email unset returned the three paths without a mail call, the other
\* made the mail call, its mail went out and the call raised.
C18_Witness ==
    \E r, q \in Runs :
        /\ run[r].pc = "returned"
        /\ ~run[r].send_email
        /\ run[r].steps = SubSeq(StepOrder, 1, 3)
        /\ run[r].ran = 3
        /\ ReportFiles \subseteq run[r].seen
        /\ run[r].result = Success
        /\ ~Mailed(r)
        /\ run[q].pc = "returned"
        /\ run[q].send_email
        /\ run[q].steps = StepOrder
        /\ ReportFiles \subseteq run[q].seen
        /\ Mailed(q)
        /\ run[q].result = Failure

-----------------------------------------------------------------------------
(* Upload after upload: a workbook is uploaded and analysed; another         *)
(* workbook, which may lack a required column, is selected and uploaded in   *)
(* the same session, before, while or after the analysis runs, and a second  *)
(* analysis is asked for.                                                    *)

MaxPipeRows == 1

ReuploadColumnSets ==
    {RequiredCols, AllCols \ {"Cash Inflow"}, RequiredCols \ {"Payment Status"}}

Clicks == {"first", "second"}

InitReupload ==
    /\ file \in {Table(c, <<>>) : c \in ReuploadColumnSets}
    /\ Fresh(MaxNow)
    /\ run = [r \in Clicks |-> IdleRun]
    /\ files = {}
    /\ emails = <<>>
    /\ api_key \in BOOLEAN
    /\ cwd = "report_dir"
    /\ memoized = TRUE

AddPipeRow ==
    /\ Len(file.rows) < MaxPipeRows
    /\ \E r \in PipeRows : Extend(r)

\* The user selects another workbook in file_input; nothing else changes until
\* the next click.
NewWorkbook ==
    /\ phase = "uploaded"
    /\ run["second"].pc = "idle"
    /\ \E c \in ReuploadColumnSets : file' = Table(c, <<>>)
    /\ phase' = "edit"
    /\ UNCHANGED <<df_state, upload_output, cash_flow_report_data, ret, prev, now, gen_at,
                   arg, run, files, emails, api_key, cwd,
                   memoized>>

\* start_analysis_and_switch_tab, main.py 231-241: run_ai_analysis is called
\* with the table df_state holds at the click.
Analyze(r) ==
    /\ r = "second" => run["first"].pc # "idle"
    /\ Enter(r, df_state)

NextReupload ==
    \/ AddPipeRow
    \/ Upload
    \/ NewWorkbook
    \/ \E r \in Clicks :
          Analyze(r) \/ Guard(r) \/ GenerateStep(r) \/ BuildTask(r) \/ Kickoff(r)
            \/ CheckFiles(r) \/ Email(r) \/ send_reports_via_email(r) \/ EmailReturn(r)

SpecReupload == InitReupload /\ [][NextReupload]_vars

\* C13: the upload of a workbook that lacks a required column answers with the
\* missing-columns error, empties the stored table and generates nothing; a
\* run_ai_analysis asked for after it is called without a table and returns the
\* error result at its first guard, without a generate call, a file or a mail,
\* and with the stored report as it was.
C13_FailFast ==
    [][/\ (phase = "edit" /\ phase' = "uploaded" /\ MissingCols(file) # {}) =>
             /\ upload_output' = "missing"
             /\ df_state' = None
             /\ UNCHANGED <<cash_flow_report_data, ret, gen_at>>
       /\ \A r \in Clicks :
             /\ (run[r].pc = "idle" /\ run'[r].pc # "idle" /\ upload_output = "missing") =>
                   run'[r].df = None
             /\ (run[r].pc = "guard" /\ run[r].df = None /\ run'[r] # run[r]) =>
                   /\ run'[r].pc = "returned"
                   /\ run'[r].result = Failure
                   /\ run'[r].steps = <<>>
                   /\ UNCHANGED <<df_state, cash_flow_report_data, ret, gen_at, files,
                                  emails>>]_vars

\* A run refused after the upload of a workbook with rows and without a required
\* column, while the report of an earlier analysis is stored.
C13_Witness ==
    /\ upload_output = "missing"
    /\ MissingCols(file) # {}
    /\ Len(file.rows) > 0
    /\ df_state = None
    /\ run["first"].steps # <<>>
    /\ run["second"].pc = "returned"
    /\ run["second"].df = None
    /\ run["second"].result = Failure
    /\ run["second"].steps = <<>>
    /\ cash_flow_report_data # None
    /\ cash_flow_report_data = run["first"].report

====
